---- MODULE Spec2Model ----
(***************************************************************************)
(* react-native-dynamic-navbar: the DynamicNavbar component and its        *)
(* AnimatedNavItem children (src/src/DynamicNavbar.tsx), with the second   *)
(* build of the same file kept in the repository (src/unnamed/part_002).   *)
(*                                                                         *)
(* A render is a pure function from the caller's props to an element tree; *)
(* the state that outlives a render is each mounted item's three animated  *)
(* scalars and the animations running on them.                             *)
(***************************************************************************)
EXTENDS Integers, Sequences, FiniteSets, TLC

VARIABLES
  build,      \* which build of DynamicNavbar.tsx is running
  items,      \* the caller's items array, as it stands after the last render
  supplied,   \* the items array as the caller handed it to the last render
  cfg,        \* the other props of the last render
  tree,       \* the element tree the last render returned
  inst,       \* per item id: the mounted AnimatedNavItem instance
  calls,      \* per onPress callback: how often it has been invoked
  iconIn,     \* renderIcon's arguments, where it is applied on its own
  iconOut     \* renderIcon's result for iconIn

vars == <<build, items, supplied, cfg, tree, inst, calls, iconIn, iconOut>>

-----------------------------------------------------------------------------
(* JavaScript values *)

\* A prop or field the caller left out.
Undefined == "undefined"

\* What a render returns for nothing at all.
Null == [null |-> TRUE]

\* Truthiness of an optional string.
Truthy(s) == s \notin {Undefined, ""}

\* a || b on numbers (0 stands for an omitted or zero size: || treats them alike).
OrNum(a, b) == IF a # 0 THEN a ELSE b

\* a || b on optional strings.
OrStr(a, b) == IF Truthy(a) THEN a ELSE b

\* a ?? b on optional strings.
Coalesce(a, b) == IF a # Undefined THEN a ELSE b

RECURSIVE ArrayReverse(_)
\* Array.prototype.reverse, as a value.
ArrayReverse(s) ==
  IF s = <<>> THEN <<>> ELSE Append(ArrayReverse(Tail(s)), Head(s))

-----------------------------------------------------------------------------
(* Constants of the component *)

DEFAULT_COLORS ==
  [gold |-> "#FF9500", goldText |-> "#FFB340",
   midnightBlue |-> "#1C1C1E", textSecondary |-> "#B8B8C8"]

\* The icon size used when the icon gives none.
DefaultIconSize == 24

\* What isSpecial adds to a vector or svg icon's size.
SpecialSizeBump == 4

\* styles.tabDisabled.opacity, in percent.
TabDisabledOpacity == 40

\* The two builds of DynamicNavbar.tsx in the repository.
Builds == {"spring", "liquid"}

-----------------------------------------------------------------------------
(* Icons *)

RecognisedFamilies ==
  {"Ionicons", "MaterialIcons", "FontAwesome", "Feather", "MaterialCommunityIcons"}

getIconComponent_NoDefault(family) ==
  IF family \in RecognisedFamilies THEN family ELSE Undefined

getIconComponent(family) ==
  CASE family = "MaterialIcons" -> "MaterialIcons"
    [] family = "FontAwesome" -> "FontAwesome"
    [] family = "Feather" -> "Feather"
    [] family = "MaterialCommunityIcons" -> "MaterialCommunityIcons"
    [] OTHER -> "Ionicons"

\* The image branch's imageStyle; isActive and isSpecial are in scope there.
imageStyle_ActiveTint(icon, isActive, isSpecial) ==
  LET imageSize == OrNum(icon.width, OrNum(icon.height, DefaultIconSize))
  IN [width |-> OrNum(icon.width, imageSize),
      height |-> OrNum(icon.height, imageSize),
      tintColor |-> IF Truthy(icon.tintColor) THEN icon.tintColor
                    ELSE IF isActive THEN DEFAULT_COLORS.goldText
                    ELSE Undefined]

imageStyle(icon, isActive, isSpecial) ==
  LET imageSize == OrNum(icon.width, OrNum(icon.height, DefaultIconSize))
  IN [width |-> OrNum(icon.width, imageSize),
      height |-> OrNum(icon.height, imageSize),
      tintColor |-> IF Truthy(icon.tintColor) THEN icon.tintColor ELSE Undefined]

\* The svg branch's iconColor and finalColor.
SvgFinalColor_ActiveFirst(icon, isActive, isSpecial) ==
  LET iconColor == IF isActive THEN DEFAULT_COLORS.goldText
                   ELSE OrStr(icon.color, DEFAULT_COLORS.textSecondary)
  IN IF isSpecial THEN DEFAULT_COLORS.midnightBlue ELSE iconColor

SvgFinalColor(icon, isActive, isSpecial) ==
  LET iconColor == OrStr(icon.color,
                         IF isActive THEN DEFAULT_COLORS.goldText
                                     ELSE DEFAULT_COLORS.textSecondary)
  IN IF isSpecial THEN DEFAULT_COLORS.midnightBlue ELSE iconColor

renderIcon(icon, isActive, isSpecial) ==
  IF icon.type = "svg" THEN
    LET iconSize == OrNum(icon.width, OrNum(icon.height, DefaultIconSize))
        finalColor == SvgFinalColor(icon, isActive, isSpecial)
        finalSize == IF isSpecial THEN iconSize + SpecialSizeBump ELSE iconSize
    IN [el |-> "SvgComponent", component |-> icon.component,
        width |-> finalSize, height |-> finalSize,
        color |-> finalColor, fill |-> finalColor]
  ELSE IF icon.type = "image" THEN
    LET style == imageStyle(icon, isActive, isSpecial)
    IN [el |-> "Image", source |-> icon.source,
        width |-> style.width, height |-> style.height,
        tintColor |-> style.tintColor]
  ELSE
    LET IconComponent == getIconComponent(icon.family)
        iconSize == OrNum(icon.size, DefaultIconSize)
        iconColor == IF isActive THEN DEFAULT_COLORS.goldText
                                 ELSE DEFAULT_COLORS.textSecondary
    \* JSX over a component that is not there renders no icon.
    IN IF IconComponent = Undefined THEN Null
       ELSE [el |-> "IconComponent", component |-> IconComponent,
             name |-> icon.name,
             size |-> IF isSpecial THEN iconSize + SpecialSizeBump ELSE iconSize,
             color |-> IF isSpecial THEN DEFAULT_COLORS.midnightBlue ELSE iconColor]

-----------------------------------------------------------------------------
(* One item: the element AnimatedNavItem returns *)

\* The label's colour: styles.label, then labelActive if active, then
\* labelSpecial if special; in a style array the later entry wins.
labelColor_ActiveLast(isActive, special) ==
  IF isActive THEN DEFAULT_COLORS.goldText
  ELSE IF special THEN DEFAULT_COLORS.midnightBlue
  ELSE DEFAULT_COLORS.textSecondary

labelColor(isActive, special) ==
  IF special THEN DEFAULT_COLORS.midnightBlue
  ELSE IF isActive THEN DEFAULT_COLORS.goldText
  ELSE DEFAULT_COLORS.textSecondary

\* The active-indicator elements of one item, in the order they are rendered.
ActiveIndicators_IgnoreSpecial(p) ==
  IF p.showActiveIndicator
  THEN <<[shape |-> IF p.theme = "glass" THEN "pill" ELSE "dot",
          noLabel |-> ~p.showLabels,
          backgroundColor |-> p.activeColor]>>
  ELSE <<>>

ActiveIndicators(p) ==
  LET special == p.item.isSpecial = "true"
      shape == IF p.theme = "glass" THEN "pill" ELSE "dot"
      labelled == p.showLabels /\ Truthy(p.item.label)
  IN IF p.build = "spring" THEN
       \* below the label or icon
       IF p.showActiveIndicator /\ ~special
       THEN <<[shape |-> shape, noLabel |-> ~p.showLabels,
               backgroundColor |-> p.activeColor]>>
       ELSE <<>>
     ELSE
       \* the liquid build renders one above the label and one below it
       (IF ~special
        THEN <<[shape |-> shape, noLabel |-> FALSE,
                backgroundColor |-> p.activeColor]>>
        ELSE <<>>)
       \o
       (IF ~special
        THEN <<[shape |-> shape, noLabel |-> ~labelled,
                backgroundColor |-> p.activeColor]>>
        ELSE <<>>)

\* const isDisabled = item.disabled === true.
isDisabled_NotFalse(item) == item.disabled # "false"

isDisabled(item) == item.disabled = "true"

\* The onPress prop handed to Pressable.
PressableOnPress_Unguarded(item) == item.onPress

PressableOnPress_FirstCallback(item) ==
  IF item.disabled = "true" THEN Undefined ELSE "home"

PressableOnPress(item) ==
  IF isDisabled(item) THEN Undefined ELSE item.onPress

AnimatedNavItem(p) ==
  LET item == p.item
      special == item.isSpecial = "true"
  IN [key |-> item.id,
      \* what handlePressIn and handlePressOut close over
      enableGlow |-> p.enableGlow,
      itemDisabled |-> item.disabled = "true",
      onPress |-> PressableOnPress(item),
      disabled |-> isDisabled(item),
      isActive |-> p.isActive,
      tabSpecial |-> special,
      tabDisabled |-> isDisabled(item),
      opacity |-> IF isDisabled(item) THEN TabDisabledOpacity ELSE 100,
      glowLayer |-> IF p.enableGlow /\ ~special
                    THEN [backgroundColor |-> p.glowColor] ELSE Null,
      icon |-> renderIcon(item.icon, p.isActive, special),
      label |-> IF p.showLabels /\ Truthy(item.label)
                THEN [text |-> item.label,
                      color |-> labelColor(p.isActive, special)]
                ELSE Null,
      indicators |-> ActiveIndicators(p)]

-----------------------------------------------------------------------------
(* The bar: what DynamicNavbar returns *)

\* The array the map runs over, and the caller's array as the expression
\* leaves it: reverse() works in place, on the copy [...items] where the
\* code makes one.
displayItems_NoReverse(its, direction) == [display |-> its, caller |-> its]

displayItems_InPlace(its, direction) ==
  IF direction = "rtl"
  THEN [display |-> ArrayReverse(its), caller |-> ArrayReverse(its)]
  ELSE [display |-> its, caller |-> its]

displayItems(its, direction) ==
  IF direction = "rtl"
  THEN LET copy == its
       IN [display |-> ArrayReverse(copy), caller |-> its]
  ELSE [display |-> its, caller |-> its]

isGlowEnabled_Or(c) == c.enableGlow = "true" \/ c.theme = "glass"

isGlowEnabled(c) ==
  IF c.enableGlow # Undefined THEN c.enableGlow = "true" ELSE c.theme = "glass"

effectiveGlowColor(c) ==
  Coalesce(c.glowColor,
           IF c.theme = "glass" THEN "rgba(255, 255, 255, 0.5)"
                                ELSE "rgba(255, 149, 0, 0.4)")

effectiveActiveColor(c) ==
  Coalesce(c.activeColor,
           IF c.theme = "glass" THEN "rgba(255, 255, 255, 0.2)"
                                ELSE DEFAULT_COLORS.gold)

renderBackground_BlurOnly(b, c) ==
  IF c.theme = "glass"
  THEN IF c.BlurComponent # Undefined
       THEN <<[el |-> "BlurComponent", blurType |-> c.blurType,
               blurAmount |-> c.blurIntensity],
              [el |-> "View", style |-> "glassBlurOverlay"],
              [el |-> "View", style |-> "border"]>>
       ELSE <<>>
  ELSE <<[el |-> "View", style |-> "overlay"]>>

renderBackground_BlurOverFrost(b, c) ==
  (IF c.BlurComponent # Undefined /\ c.theme = "glass"
   THEN <<[el |-> "BlurComponent", blurType |-> c.blurType,
           blurAmount |-> c.blurIntensity],
          [el |-> "View", style |-> "glassBlurOverlay"]>>
   ELSE <<>>)
  \o <<[el |-> "View", style |-> "overlay"]>>
  \o (IF c.theme = "glass"
      THEN <<[el |-> "View", style |-> "glassFrostLayer1"],
             [el |-> "View", style |-> "glassFrostLayer2"],
             [el |-> "View", style |-> "glassFrostLayer3"],
             [el |-> "View", style |-> "border"]>>
      ELSE <<>>)

renderBackground_BlurAnyTheme(b, c) ==
  IF c.BlurComponent # Undefined
  THEN <<[el |-> "BlurComponent", blurType |-> c.blurType,
          blurAmount |-> c.blurIntensity],
         [el |-> "View", style |-> "glassBlurOverlay"],
         [el |-> "View", style |-> "border"]>>
  ELSE <<[el |-> "View", style |-> "overlay"]>>
       \o (IF c.theme = "glass"
           THEN <<[el |-> "View", style |-> "glassFrostLayer1"],
                  [el |-> "View", style |-> "glassFrostLayer2"],
                  [el |-> "View", style |-> "glassFrostLayer3"],
                  [el |-> "View", style |-> "border"]>>
           ELSE <<>>)

renderBackground(b, c) ==
  IF c.BlurComponent # Undefined /\ c.theme = "glass"
  THEN <<[el |-> "BlurComponent", blurType |-> c.blurType,
          blurAmount |-> c.blurIntensity],
         [el |-> "View", style |-> "glassBlurOverlay"],
         [el |-> "View", style |-> "border"]>>
  ELSE <<[el |-> "View", style |-> "overlay"]>>
       \o (IF c.theme = "glass"
           THEN <<[el |-> "View", style |-> "glassFrostLayer1"],
                  [el |-> "View", style |-> "glassFrostLayer2"],
                  [el |-> "View", style |-> "glassFrostLayer3"]>>
                \o (IF b = "liquid"
                    THEN <<[el |-> "View", style |-> "glassSpecularHighlight"]>>
                    ELSE <<>>)
                \o <<[el |-> "View", style |-> "border"]>>
           ELSE <<>>)

isActive_AnySelected(c, item) == c.activeItemId # Undefined

isActive(c, item) == c.activeItemId = item.id

isVisible_Always(item) == TRUE

isVisible_TrueOnly(item) == item.visible = "true"

isVisible(item) == item.visible # "false"

\* The callback of displayItems.map: one child per item, null for a hidden one.
NavbarChild(b, c, item) ==
  IF ~isVisible(item) THEN Null
  ELSE AnimatedNavItem(
         [build |-> b, item |-> item, isActive |-> isActive(c, item),
          showLabels |-> c.showLabels, enableGlow |-> isGlowEnabled(c),
          glowColor |-> effectiveGlowColor(c),
          activeColor |-> effectiveActiveColor(c), theme |-> c.theme,
          showActiveIndicator |-> c.showActiveIndicator])

DynamicNavbar(b, its, c) ==
  LET d == displayItems(its, c.direction)
  IN [background |-> renderBackground(b, c),
      children |-> [k \in 1..Len(d.display) |->
                      NavbarChild(b, c, d.display[k])],
      callerItems |-> d.caller]

\* The elements the host lays out: the children that are not null.
Rendered(t) == SelectSeq(t.children, LAMBDA e : e # Null)

\* The keys of the rendered elements, in display order.
RenderedKeys(t) == [k \in 1..Len(Rendered(t)) |-> Rendered(t)[k].key]

-----------------------------------------------------------------------------
(* Animated values.  Values are in percent: Animated.Value(1) is 100. *)

\* scaleAnim's target while pressed: toValue 0.92.
ScalePressed == 92

\* One frame moves a scalar half of its full range: between its two ends
\* every scalar is seen at one position on the way (the curves themselves
\* are the host's).
ScaleStep == (100 - ScalePressed) \div 2
GlowStep == 100 \div 2
ActiveStep == 100 \div 2

\* How many release delays one item may have pending at once.
MaxDelays == 2

\* How often one callback is counted.
MaxCalls == 2

Min(a, b) == IF a < b THEN a ELSE b
Max(a, b) == IF a > b THEN a ELSE b

\* One frame of an animation towards `to`.
Toward(v, to, step) ==
  IF v < to THEN Min(v + step, to) ELSE Max(v - step, to)

\* No animation is attached to the value.
NoAnim == [on |-> FALSE, to |-> 0]

\* An animation running on a value.
Anim(to) == [on |-> TRUE, to |-> to]

\* An item that is not mounted has no instance state.
\*   scale, glow, active   the three Animated.Values
\*   scaleRun, ...         the animation attached to each
\*   delays                how many Animated.delay(50) are waiting
\*   joined                which child of the same Animated.parallel as the
\*                         running scale animation has not ended yet: the
\*                         glow animation ("glow"), the delay started last
\*                         ("delay"), or none
\*   activeDep             the isActive the effect last ran for
\*   gesture               the finger: "none" since mount, "down", or how
\*                         the last gesture ended ("tapped", "cancelled")
\*   phase                 the press state of section 4.4: "Idle" since
\*                         mount, "Pressed" / "Released" after the handler
\*                         that last started animations
\*   early                 the handler that last started animations found
\*                         those of the other handler still in flight
NoInst ==
  [mounted |-> FALSE, scale |-> 100, glow |-> 0, active |-> 0,
   scaleRun |-> NoAnim, glowRun |-> NoAnim, activeRun |-> NoAnim,
   delays |-> 0, joined |-> "none", activeDep |-> FALSE,
   gesture |-> "none", phase |-> "Idle", early |-> FALSE]

\* A press animation is attached to one of the scalars and has not ended.
PressInFlight(r) ==
  \/ r.scaleRun.on /\ r.scaleRun.to = ScalePressed
  \/ r.glowRun.on /\ r.glowRun.to = 100

\* Something a release started has not ended: its scale animation, its
\* delay or its fade-out.
ReleaseInFlight(r) ==
  \/ r.scaleRun.on /\ r.scaleRun.to = 100
  \/ r.glowRun.on /\ r.glowRun.to = 0
  \/ r.delays > 0

\* The animation on scaleAnim ends unfinished (a new one replaces it, or
\* stopAnimation): its parallel, stopTogether, stops the child that has
\* not ended.
StopScale(r) ==
  IF ~r.scaleRun.on THEN r
  ELSE [r EXCEPT !.scaleRun = NoAnim,
                 !.glowRun = IF r.joined = "glow" THEN NoAnim ELSE @,
                 !.delays = IF r.joined = "delay" THEN @ - 1 ELSE @,
                 !.joined = "none"]

\* The animation on glowAnim ends unfinished: its parallel stops the scale
\* animation if that is its child and still running.
StopGlow(r) ==
  IF ~r.glowRun.on THEN r
  ELSE [r EXCEPT !.glowRun = NoAnim,
                 !.scaleRun = IF r.joined = "glow" THEN NoAnim ELSE @,
                 !.joined = IF r.joined = "glow" THEN "none" ELSE @]

\* Animated.spring / Animated.timing (...).start() on each value: the
\* value's running animation is stopped and the new one attached.
StartScale(r, to) == [StopScale(r) EXCEPT !.scaleRun = Anim(to)]
StartGlow(r, to) == [StopGlow(r) EXCEPT !.glowRun = Anim(to)]

StartActive_NoSupersede(r, to) ==
  IF r.activeRun.on THEN r ELSE [r EXCEPT !.activeRun = Anim(to)]

StartActive(r, to) == [r EXCEPT !.activeRun = Anim(to)]

-----------------------------------------------------------------------------
(* AnimatedNavItem: mount, effect and press handlers *)

\* useRef(new Animated.Value(...)) on mount, then the effect's first run.
MountItem_FromZero(el) ==
  StartActive([NoInst EXCEPT !.mounted = TRUE, !.activeDep = el.isActive],
              IF el.isActive THEN 100 ELSE 0)

MountItem(el) ==
  LET a == IF el.isActive THEN 100 ELSE 0
  IN StartActive([NoInst EXCEPT !.mounted = TRUE, !.active = a,
                                !.activeDep = el.isActive], a)

\* useEffect(..., [isActive, activeAnim]) on a re-render.
ActiveEffect_MountOnly(r, el) == r

ActiveEffect(r, el) ==
  IF el.isActive # r.activeDep
  THEN [StartActive(r, IF el.isActive THEN 100 ELSE 0)
          EXCEPT !.activeDep = el.isActive]
  ELSE r

\* activeAnim.interpolate({inputRange: [0, 1], outputRange: [0, 1]}), twice.
activeIndicatorScale(r) == r.active

activeIndicatorOpacity(r) == r.active

handlePressIn_DisabledOnly(r, el) ==
  IF el.itemDisabled THEN r
  ELSE [StartGlow(StartScale(r, ScalePressed), 100) EXCEPT !.joined = "glow"]

handlePressIn_PlainOnly(r, el) ==
  IF ~el.enableGlow \/ el.itemDisabled \/ el.tabSpecial THEN r
  ELSE [StartGlow(StartScale(r, ScalePressed), 100) EXCEPT !.joined = "glow"]

handlePressIn(r, el) ==
  IF ~el.enableGlow \/ el.itemDisabled THEN r
  ELSE [StartGlow(StartScale(r, ScalePressed), 100) EXCEPT !.joined = "glow"]

handlePressOut_ScaleOnly(r, el) ==
  IF ~el.enableGlow \/ el.itemDisabled THEN r ELSE StartScale(r, 100)

handlePressOut_GlowGuardOnly(r, el) ==
  IF ~el.enableGlow THEN r
  ELSE [StartScale(r, 100) EXCEPT !.delays = @ + 1, !.joined = "delay"]

handlePressOut(r, el) ==
  IF ~el.enableGlow \/ el.itemDisabled THEN r
  ELSE [StartScale(r, 100) EXCEPT !.delays = @ + 1, !.joined = "delay"]

\* Animated.delay(50) of the oldest waiting sequence has run out: its
\* fade-out starts.  The delay is the scale animation's sibling only if it
\* is also the one started last.
SequenceNext(r) ==
  LET mine == r.joined = "delay" /\ r.delays = 1
      r1 == StartGlow([r EXCEPT !.delays = @ - 1], 0)
  IN [r1 EXCEPT !.joined = IF mine THEN "glow" ELSE @]

-----------------------------------------------------------------------------
(* The caller's props *)

Ids == {"home", "search", "create"}

VectorIconOf(family) ==
  [type |-> "vector", family |-> family, name |-> "glyph", size |-> 0]

ImageIconOf(w, h, tint) ==
  [type |-> "image", source |-> "icon.png", width |-> w, height |-> h,
   tintColor |-> tint]

SvgIconOf(w, h, color) ==
  [type |-> "svg", component |-> "MyIcon", width |-> w, height |-> h,
   color |-> color]

\* An item as the README writes it: only id, label, icon and onPress given.
\* Each item's onPress is a callback of its own, named after the item.
PlainItem(id, icon) ==
  [id |-> id, label |-> "Label", icon |-> icon, onPress |-> id,
   isSpecial |-> Undefined, visible |-> Undefined, disabled |-> Undefined]

\* The props a caller leaves at their defaults.
DefaultCfg ==
  [activeItemId |-> Undefined, showLabels |-> TRUE, direction |-> "ltr",
   theme |-> "default", BlurComponent |-> Undefined, blurIntensity |-> 20,
   blurType |-> "light", enableGlow |-> Undefined, glowColor |-> Undefined,
   activeColor |-> Undefined, showActiveIndicator |-> TRUE]

\* The props one edit away: one field of one item, or one prop, set anew.
\* itemDom (per item id) and cfgDom give the values each editable field
\* may take.
OneEdit(its, c, itemDom, cfgDom) ==
  UNION {UNION {{[items |-> [its EXCEPT ![k] = [@ EXCEPT ![f] = v]], cfg |-> c]
                  : v \in itemDom[its[k].id][f]}
                  : f \in DOMAIN itemDom[its[k].id]}
           : k \in 1..Len(its)}
  \cup UNION {{[items |-> its, cfg |-> [c EXCEPT ![f] = v]] : v \in cfgDom[f]}
                : f \in DOMAIN cfgDom}

-----------------------------------------------------------------------------
(* Rendering and reconciliation *)

\* The rendered element with key id, or Null.
ElementOf(t, id) ==
  IF \E k \in 1..Len(t.children) :
       t.children[k] # Null /\ t.children[k].key = id
  THEN LET k == CHOOSE k \in 1..Len(t.children) :
                  t.children[k] # Null /\ t.children[k].key = id
       IN t.children[k]
  ELSE Null

\* React keeps the instance of a key that is still rendered, mounts a new
\* one for a key that appears and drops the one of a key that is gone.
Reconcile_KeepHidden(r, el) ==
  IF el = Null THEN r
  ELSE IF ~r.mounted THEN MountItem(el)
  ELSE ActiveEffect(r, el)

Reconcile(r, el) ==
  IF el = Null THEN NoInst
  ELSE IF ~r.mounted THEN MountItem(el)
  ELSE ActiveEffect(r, el)

\* The host renders the component with the caller's props.
Render_ByPosition(its, c) ==
  LET out == DynamicNavbar(build, its, c)
      Was(k) == IF k <= Len(tree.children) /\ tree.children[k] # Null
                THEN inst[tree.children[k].key]
                ELSE NoInst
      At(id) == CHOOSE k \in 1..Len(out.children) :
                  out.children[k] # Null /\ out.children[k].key = id
  IN /\ supplied' = its
     /\ items' = out.callerItems
     /\ cfg' = c
     /\ tree' = out
     /\ inst' = [id \in Ids |->
                   IF ElementOf(out, id) = Null THEN NoInst
                   ELSE Reconcile(Was(At(id)), ElementOf(out, id))]
     /\ UNCHANGED <<build, calls, iconIn, iconOut>>

Render(its, c) ==
  LET out == DynamicNavbar(build, its, c)
  IN /\ supplied' = its
     /\ items' = out.callerItems
     /\ cfg' = c
     /\ tree' = out
     /\ inst' = [id \in Ids |-> Reconcile(inst[id], ElementOf(out, id))]
     /\ UNCHANGED <<build, calls, iconIn, iconOut>>

-----------------------------------------------------------------------------
(* Input events the host delivers to a mounted item *)

\* The instance after onPressIn took r to r1: the finger is down, and the
\* item is Pressed if the handler started its animations.
Pressed(r, r1) ==
  [r1 EXCEPT !.gesture = "down",
             !.phase = IF r1 # r THEN "Pressed" ELSE @,
             !.early = IF r1 # r THEN ReleaseInFlight(r) ELSE @]

\* The instance after onPressOut took r to r1 at the end of a gesture: the
\* item is Released if the handler started its animations.
Released(r, r1, how) ==
  [r1 EXCEPT !.gesture = how,
             !.phase = IF r1 # r THEN "Released" ELSE @,
             !.early = IF r1 # r THEN PressInFlight(r) ELSE @]

\* A finger goes down on the item: onPressIn.
PressIn_SharedValues(id) ==
  /\ inst[id].mounted /\ inst[id].gesture # "down"
  /\ inst' = [j \in Ids |->
                IF j = id
                THEN Pressed(inst[j], handlePressIn(inst[j], ElementOf(tree, id)))
                ELSE IF inst[j].mounted
                THEN handlePressIn(inst[j], ElementOf(tree, id))
                ELSE inst[j]]
  /\ UNCHANGED <<build, items, supplied, cfg, tree, calls, iconIn, iconOut>>

PressIn(id) ==
  /\ inst[id].mounted /\ inst[id].gesture # "down"
  /\ inst' = [inst EXCEPT ![id] =
                Pressed(@, handlePressIn(@, ElementOf(tree, id)))]
  /\ UNCHANGED <<build, items, supplied, cfg, tree, calls, iconIn, iconOut>>

\* Whether the release handler may still queue its delay.
CanRelease(id) ==
  LET el == ElementOf(tree, id)
  IN (el.enableGlow /\ ~el.itemDisabled) => inst[id].delays < MaxDelays

\* The finger leaves without completing a tap: onPressOut alone.
PressOut(id) ==
  /\ inst[id].mounted /\ inst[id].gesture = "down"
  /\ CanRelease(id)
  /\ inst' = [inst EXCEPT ![id] =
                Released(@, handlePressOut(@, ElementOf(tree, id)), "cancelled")]
  /\ UNCHANGED <<build, items, supplied, cfg, tree, calls, iconIn, iconOut>>

\* The finger is lifted on the item, a completed tap: the Pressable calls
\* its onPress prop, if it has one, and onPressOut.
Tap(id) ==
  LET el == ElementOf(tree, id)
  IN /\ inst[id].mounted /\ inst[id].gesture = "down"
     /\ CanRelease(id)
     /\ el.onPress # Undefined => calls[el.onPress] < MaxCalls
     /\ calls' = IF el.onPress # Undefined
                 THEN [calls EXCEPT ![el.onPress] = @ + 1]
                 ELSE calls
     /\ inst' = [inst EXCEPT ![id] =
                   Released(@, handlePressOut(@, el), "tapped")]
     /\ UNCHANGED <<build, items, supplied, cfg, tree, iconIn, iconOut>>

-----------------------------------------------------------------------------
(* The host's animation scheduler *)

\* One frame of the animation on scaleAnim; it finishes on reaching toValue.
\* A release animation with a distance to cover outlasts the 50 ms delay
\* started with it; a spring started where it is to end is at rest on its
\* first frame.
ScaleFrame(id) ==
  LET r == inst[id]
      v == Toward(r.scale, r.scaleRun.to, ScaleStep)
  IN /\ r.mounted /\ r.scaleRun.on
     /\ (v = r.scaleRun.to /\ r.joined = "delay") => r.scale = r.scaleRun.to
     /\ inst' = [inst EXCEPT ![id] =
                   IF v = r.scaleRun.to
                   THEN [r EXCEPT !.scale = v, !.scaleRun = NoAnim,
                                  !.joined = "none"]
                   ELSE [r EXCEPT !.scale = v]]
     /\ UNCHANGED <<build, items, supplied, cfg, tree, calls, iconIn, iconOut>>

GlowFrame(id) ==
  LET r == inst[id]
      v == Toward(r.glow, r.glowRun.to, GlowStep)
  IN /\ r.mounted /\ r.glowRun.on
     /\ inst' = [inst EXCEPT ![id] =
                   IF v = r.glowRun.to
                   THEN [r EXCEPT !.glow = v, !.glowRun = NoAnim,
                                  !.joined = IF @ = "glow" THEN "none" ELSE @]
                   ELSE [r EXCEPT !.glow = v]]
     /\ UNCHANGED <<build, items, supplied, cfg, tree, calls, iconIn, iconOut>>

ActiveFrame(id) ==
  LET r == inst[id]
      v == Toward(r.active, r.activeRun.to, ActiveStep)
  IN /\ r.mounted /\ r.activeRun.on
     /\ inst' = [inst EXCEPT ![id] =
                   IF v = r.activeRun.to
                   THEN [r EXCEPT !.active = v, !.activeRun = NoAnim]
                   ELSE [r EXCEPT !.active = v]]
     /\ UNCHANGED <<build, items, supplied, cfg, tree, calls, iconIn, iconOut>>

\* The oldest pending delay of the item runs out (all last 50 ms, so they
\* run out in the order they were started).
DelayDone(id) ==
  /\ inst[id].mounted /\ inst[id].delays > 0
  /\ inst' = [inst EXCEPT ![id] = SequenceNext(@)]
  /\ UNCHANGED <<build, items, supplied, cfg, tree, calls, iconIn, iconOut>>

-----------------------------------------------------------------------------
(* Specifications *)

InitIcon ==
  /\ iconIn = [icon |-> VectorIconOf("Ionicons"), isActive |-> FALSE,
               isSpecial |-> FALSE]
  /\ iconOut = renderIcon(iconIn.icon, iconIn.isActive, iconIn.isSpecial)

\* The state after the first render of the props (its, c).
FirstRender(b, its, c) ==
  LET out == DynamicNavbar(b, its, c)
  IN /\ build = b
     /\ supplied = its
     /\ items = out.callerItems
     /\ cfg = c
     /\ tree = out
     /\ inst = [id \in Ids |-> Reconcile(NoInst, ElementOf(out, id))]
     /\ calls = [id \in Ids |-> 0]

\* Presses and the animations they start.
Motion ==
  \/ \E id \in Ids : PressIn(id)
  \/ \E id \in Ids : PressOut(id)
  \/ \E id \in Ids : ScaleFrame(id)
  \/ \E id \in Ids : GlowFrame(id)
  \/ \E id \in Ids : ActiveFrame(id)
  \/ \E id \in Ids : DelayDone(id)

\* Spec: a bar of one item and its animations.  Between renders the caller
\* hides, shows, disables and enables the item, makes it the active one or
\* not, and switches the glow.  How a gesture ends, in a completed tap or
\* not, makes no difference to the animations; completed taps are followed
\* in SpecTaps.
HomeItems == <<PlainItem("home", VectorIconOf("Ionicons"))>>

HomeItemDom ==
  [home |-> [visible |-> {"true", "false"}, disabled |-> {"true", "false"}]]

HomeCfgDom ==
  [activeItemId |-> {Undefined, "home"}, enableGlow |-> {"true", "false"}]

Init ==
  /\ FirstRender("spring", HomeItems, DefaultCfg)
  /\ InitIcon

Rerender ==
  \E n \in OneEdit(items, cfg, HomeItemDom, HomeCfgDom) : Render(n.items, n.cfg)

Next == Rerender \/ Motion

Spec == Init /\ [][Next]_vars

\* SpecSettle: Spec with the host's scheduler running: an animation that is
\* attached gets its frames and a delay that is waiting runs out.
Frames ==
  \E id \in Ids : ScaleFrame(id) \/ GlowFrame(id) \/ DelayDone(id)

SpecSettle == Spec /\ WF_vars(Frames)

\* SpecTaps: a bar of two items, one of them special, under the default
\* theme (no glow).  Between renders the caller hides, shows, disables and
\* enables either item and switches the direction.
PairItems ==
  <<PlainItem("home", VectorIconOf("Ionicons")),
    [PlainItem("create", VectorIconOf("Ionicons")) EXCEPT !.isSpecial = "true"]>>

PairItemDom ==
  [home |-> [visible |-> {"true", "false"}, disabled |-> {"true", "false"}],
   create |-> [visible |-> {"true", "false"}, disabled |-> {"true", "false"}]]

PairCfgDom == [direction |-> {"ltr", "rtl"}]

InitTaps ==
  /\ FirstRender("spring", PairItems, DefaultCfg)
  /\ InitIcon

RerenderPair ==
  \E n \in OneEdit(items, cfg, PairItemDom, PairCfgDom) : Render(n.items, n.cfg)

\* With the glow off neither press handler starts an animation: only the
\* indicator's spring runs.
NextTaps ==
  \/ RerenderPair
  \/ \E id \in Ids : PressIn(id)
  \/ \E id \in Ids : PressOut(id)
  \/ \E id \in Ids : Tap(id)
  \/ \E id \in Ids : ActiveFrame(id)

SpecTaps == InitTaps /\ [][NextTaps]_vars

\* SpecRender: the render alone, in either build, over a list of three
\* items with one icon of each kind.
ScenarioItems ==
  <<[PlainItem("home", VectorIconOf("Ionicons")) EXCEPT !.visible = "true"],
    [PlainItem("search", ImageIconOf(0, 0, Undefined)) EXCEPT !.label = Undefined],
    [PlainItem("create", SvgIconOf(0, 0, Undefined)) EXCEPT !.visible = "true"]>>

RenderItemDom ==
  [home |-> [visible |-> {"true", "false"}, disabled |-> {Undefined, "true", "false"},
             isSpecial |-> {Undefined, "true"}],
   search |-> [visible |-> {Undefined, "false"}],
   create |-> [visible |-> {"true", "false"}, isSpecial |-> {Undefined, "true"}]]

\* "settings" is the id of no item.
RenderCfgDom ==
  [activeItemId |-> {Undefined, "home", "create", "settings"},
   direction |-> {"ltr", "rtl"},
   theme |-> {"default", "glass"},
   showLabels |-> {TRUE, FALSE},
   showActiveIndicator |-> {TRUE, FALSE}]

InitRender ==
  /\ \E b \in Builds : FirstRender(b, ScenarioItems, DefaultCfg)
  /\ InitIcon

RerenderAny ==
  \E n \in OneEdit(items, cfg, RenderItemDom, RenderCfgDom) :
    Render(n.items, n.cfg)

NextRender == RerenderAny

SpecRender == InitRender /\ [][NextRender]_vars

\* SpecTheme: the bar's own props resolved against the theme, in either
\* build, over a bar of one item.
ThemeItemDom == [home |-> [isSpecial |-> {Undefined, "true"}]]

ThemeCfgDom ==
  [theme |-> {"default", "glass"},
   BlurComponent |-> {Undefined, "BlurView"},
   enableGlow |-> {Undefined, "true", "false"},
   glowColor |-> {Undefined, "#00FFFF"},
   activeColor |-> {Undefined, "#FF00FF"}]

InitTheme ==
  /\ \E b \in Builds : FirstRender(b, HomeItems, DefaultCfg)
  /\ InitIcon

RerenderTheme ==
  \E n \in OneEdit(items, cfg, ThemeItemDom, ThemeCfgDom) :
    Render(n.items, n.cfg)

NextTheme == RerenderTheme

SpecTheme == InitTheme /\ [][NextTheme]_vars

\* SpecIndicator: a bar of one item and the spring on its activeAnim.
\* Between renders the caller hides and shows the item, makes it special
\* or plain, active or not, and switches theme, labels and indicator.
IndicatorItemDom ==
  [home |-> [visible |-> {"true", "false"}, isSpecial |-> {Undefined, "true"}]]

IndicatorCfgDom ==
  [activeItemId |-> {Undefined, "home", "settings"},
   theme |-> {"default", "glass"},
   showLabels |-> {TRUE, FALSE},
   showActiveIndicator |-> {TRUE, FALSE}]

RerenderIndicator ==
  \E n \in OneEdit(items, cfg, IndicatorItemDom, IndicatorCfgDom) :
    Render(n.items, n.cfg)

NextIndicator == RerenderIndicator \/ \E id \in Ids : ActiveFrame(id)

SpecIndicator == Init /\ [][NextIndicator]_vars

\* SpecActive: a bar of two items, in either build, and the transitions on
\* their activeAnim, which the host runs to their ends.  Between renders
\* the caller moves activeItemId and hides and shows either item.
ActiveItemDom ==
  [home |-> [visible |-> {"true", "false"}],
   create |-> [visible |-> {"true", "false"}]]

ActiveCfgDom == [activeItemId |-> {Undefined, "home", "create"}]

InitActive ==
  /\ \E b \in Builds : FirstRender(b, PairItems, DefaultCfg)
  /\ InitIcon

RerenderActive ==
  \E n \in OneEdit(items, cfg, ActiveItemDom, ActiveCfgDom) :
    Render(n.items, n.cfg)

NextActive == RerenderActive \/ \E id \in Ids : ActiveFrame(id)

SpecActive ==
  InitActive /\ [][NextActive]_vars /\ \A id \in Ids : WF_vars(ActiveFrame(id))

\* SpecPair: a bar of two items with the glow on and the animations of
\* both.  Between renders the caller switches the direction, hides and
\* shows the second item and makes the first active or not.  A finger goes
\* down only on an item whose earlier press has run out (presses that
\* overtake one another on the same item are followed in Spec); the two
\* items' gestures and frames interleave freely.
GlowCfg == [DefaultCfg EXCEPT !.enableGlow = "true"]

GlowItemDom ==
  [home |-> [label |-> {"Label"}],
   create |-> [visible |-> {"true", "false"}]]

GlowCfgDom ==
  [direction |-> {"ltr", "rtl"}, activeItemId |-> {Undefined, "home"}]

InitPair ==
  /\ FirstRender("spring", PairItems, GlowCfg)
  /\ InitIcon

RerenderGlow ==
  \E n \in OneEdit(items, cfg, GlowItemDom, GlowCfgDom) : Render(n.items, n.cfg)

\* Nothing a press handler started is left on the item.
PressRunOut(r) == ~r.scaleRun.on /\ ~r.glowRun.on /\ r.delays = 0

NextPair ==
  \/ RerenderGlow
  \/ \E id \in Ids : PressRunOut(inst[id]) /\ PressIn(id)
  \/ \E id \in Ids : PressOut(id)
  \/ \E id \in Ids : ScaleFrame(id)
  \/ \E id \in Ids : GlowFrame(id)
  \/ \E id \in Ids : ActiveFrame(id)
  \/ \E id \in Ids : DelayDone(id)

SpecPair == InitPair /\ [][NextPair]_vars

\* SpecRemount: a bar of one item with the glow on, its gestures (ending in
\* a completed tap or not) and its animations.  Between renders the caller
\* hides and shows the item and makes it the active one or not.  The count
\* of the item's onPress calls outlives its instances.
RemountItemDom == [home |-> [visible |-> {"true", "false"}]]

RemountCfgDom == [activeItemId |-> {Undefined, "home"}]

InitRemount ==
  /\ FirstRender("spring", HomeItems, GlowCfg)
  /\ InitIcon

RerenderRemount ==
  \E n \in OneEdit(items, cfg, RemountItemDom, RemountCfgDom) :
    Render(n.items, n.cfg)

NextRemount == RerenderRemount \/ Motion \/ \E id \in Ids : Tap(id)

SpecRemount == InitRemount /\ [][NextRemount]_vars

\* SpecIcon: renderIcon alone, over icons of every kind.
IconFamilies == RecognisedFamilies \cup {"AntDesign", Undefined}

IconSizes == {0, 20, 32}

IconColours == {Undefined, "", "#00FF00"}

Icons ==
  {[VectorIconOf(f) EXCEPT !.size = n] : f \in IconFamilies, n \in IconSizes}
    \cup {ImageIconOf(w, h, t) : w \in IconSizes, h \in IconSizes, t \in IconColours}
    \cup {SvgIconOf(w, h, c) : w \in IconSizes, h \in IconSizes, c \in IconColours}

ApplyRenderIcon ==
  /\ \E i \in Icons, a \in BOOLEAN, sp \in BOOLEAN :
       iconIn' = [icon |-> i, isActive |-> a, isSpecial |-> sp]
  /\ iconOut' = renderIcon(iconIn'.icon, iconIn'.isActive, iconIn'.isSpecial)
  /\ UNCHANGED <<build, items, supplied, cfg, tree, inst, calls>>

NextIcon == ApplyRenderIcon

SpecIcon == Init /\ [][NextIcon]_vars

-----------------------------------------------------------------------------
(* Claims *)

\* The item the caller supplied under id, or Null.
ItemOf(id) ==
  IF \E k \in 1..Len(supplied) : supplied[k].id = id
  THEN supplied[CHOOSE k \in 1..Len(supplied) : supplied[k].id = id]
  ELSE Null

\* How many rendered elements carry the key id.
ElementCount(id) ==
  Cardinality({j \in 1..Len(tree.children) :
                 tree.children[j] # Null /\ tree.children[j].key = id})

\* A completed tap is delivered to the item in this step.
TapDelivered(id) ==
  inst[id].gesture = "down" /\ inst'[id].gesture = "tapped"

\* C1: while an item has disabled === true, no step (no press-start,
\* press-end or completed tap delivered to it) invokes its onPress callback.
C1_DisabledNeverInvokesOnPress ==
  [][\A k \in 1..Len(items) :
       items[k].disabled = "true"
         => calls'[items[k].onPress] = calls[items[k].onPress]]_vars

\* A completed tap has been delivered to the disabled item "home", whose
\* callback has never run.
C1_Witness ==
  /\ ItemOf("home") # Null /\ ItemOf("home").disabled = "true"
  /\ inst["home"].gesture = "tapped"
  /\ calls["home"] = 0

\* C2: a completed tap on an item that is visible and not disabled invokes
\* that item's onPress exactly once and no other callback; a tap on a
\* disabled item, and every step that is no completed tap, invokes nothing
\* (an item with visible === false is not there to be tapped).
C2_TapInvokesOwnCallbackOnce ==
  [][/\ \A id \in Ids :
          TapDelivered(id) =>
            calls' = IF /\ ItemOf(id) # Null
                        /\ ItemOf(id).visible # "false"
                        /\ ItemOf(id).disabled # "true"
                     THEN [calls EXCEPT ![id] = @ + 1]
                     ELSE calls
     /\ (\A id \in Ids : ~TapDelivered(id)) => calls' = calls]_vars

\* "home" has been tapped once, with "create" rendered beside it and its
\* callback never run.
C2_Witness ==
  /\ inst["home"].gesture = "tapped" /\ inst["create"].mounted
  /\ calls["home"] = 1 /\ calls["create"] = 0

\* C3: an item with visible === false has no element in the rendered tree
\* and no mounted instance; an item whose visible is true or absent has
\* exactly one element and a mounted instance.
C3_HiddenItemsRenderNothing ==
  \A k \in 1..Len(supplied) :
    LET it == supplied[k]
    IN /\ it.visible = "false"
            => ElementCount(it.id) = 0 /\ ~inst[it.id].mounted
       /\ it.visible \in {Undefined, "true"}
            => ElementCount(it.id) = 1 /\ inst[it.id].mounted

\* One item is hidden, one with visible absent and one with visible true
\* are rendered.
C3_Witness ==
  /\ \E k \in 1..Len(supplied) :
       supplied[k].visible = "false" /\ ElementCount(supplied[k].id) = 0
  /\ \E k \in 1..Len(supplied) :
       supplied[k].visible = Undefined /\ ElementCount(supplied[k].id) = 1
  /\ \E k \in 1..Len(supplied) :
       supplied[k].visible = "true" /\ ElementCount(supplied[k].id) = 1

\* The rendered elements marked active.
ActiveElements ==
  {j \in 1..Len(Rendered(tree)) : Rendered(tree)[j].isActive}

\* C4: a rendered item is marked active if and only if its id equals
\* activeItemId; at most one is, and none when activeItemId is absent or
\* the id of no item.
C4_ActiveIffIdMatches ==
  /\ \A j \in 1..Len(Rendered(tree)) :
       Rendered(tree)[j].isActive <=> Rendered(tree)[j].key = cfg.activeItemId
  /\ Cardinality(ActiveElements) <= 1
  /\ (cfg.activeItemId = Undefined \/ ItemOf(cfg.activeItemId) = Null)
       => ActiveElements = {}

\* Three items are rendered and exactly "create" is marked active.
C4_Witness ==
  /\ Len(Rendered(tree)) = 3
  /\ cfg.activeItemId = "create"
  /\ ActiveElements = {j \in 1..3 : Rendered(tree)[j].key = "create"}
  /\ Cardinality(ActiveElements) = 1

\* The render of the same props in the other direction.
OtherDirection ==
  DynamicNavbar(build, supplied,
                [cfg EXCEPT !.direction = IF @ = "rtl" THEN "ltr" ELSE "rtl"])

\* C5: the elements rendered under one direction are those rendered under
\* the other in exactly the reverse order, each element the same in every
\* derived field.
C5_RtlIsExactReverse ==
  LET here == Rendered(tree)
      there == Rendered(OtherDirection)
  IN /\ Len(here) = Len(there)
     /\ \A j \in 1..Len(here) : here[j] = there[Len(here) + 1 - j]

\* Under rtl three items are rendered, the first supplied item last, with
\* an active, a disabled and a special element among them.
C5_Witness ==
  /\ cfg.direction = "rtl"
  /\ Len(Rendered(tree)) = 3
  /\ Rendered(tree)[3].key = supplied[1].id
  /\ \E j \in 1..3 : Rendered(tree)[j].isActive
  /\ \E j \in 1..3 : Rendered(tree)[j].tabDisabled
  /\ \E j \in 1..3 : Rendered(tree)[j].tabSpecial

\* C6: after every render, in either direction, the caller's items array
\* holds the elements it was supplied with, in the same order.
C6_ItemsNotMutated == items = supplied

\* An rtl render has laid out several items in reverse and the caller's
\* array is as supplied.
C6_Witness ==
  /\ cfg.direction = "rtl"
  /\ Len(Rendered(tree)) >= 2
  /\ Rendered(tree)[1].key = supplied[Len(supplied)].id
  /\ items = supplied

\* C7: an item with isSpecial set renders no active-indicator element,
\* active or not, in either theme and build and whatever showActiveIndicator.
C7_SpecialHasNoIndicator ==
  \A k \in 1..Len(supplied) :
    (supplied[k].isSpecial = "true" /\ ElementOf(tree, supplied[k].id) # Null)
      => ElementOf(tree, supplied[k].id).indicators = <<>>

\* A special item is the active one and rendered without an indicator,
\* while a plain item beside it has one.
C7_Witness ==
  /\ cfg.showActiveIndicator
  /\ \E k \in 1..Len(supplied) :
       /\ supplied[k].isSpecial = "true"
       /\ cfg.activeItemId = supplied[k].id
       /\ ElementOf(tree, supplied[k].id) # Null
       /\ ElementOf(tree, supplied[k].id).indicators = <<>>
  /\ \E j \in 1..Len(Rendered(tree)) : Rendered(tree)[j].indicators # <<>>

\* The items in display order: index j of the display is index
\* Len + 1 - j of the supplied list under rtl.
DisplayOrder ==
  [j \in 1..Len(supplied) |->
     IF cfg.direction = "rtl" THEN supplied[Len(supplied) + 1 - j]
                              ELSE supplied[j]]

\* The props of the scenario: home visible, search hidden, create visible
\* and special, home active, everything else at its default.
IsScenario ==
  /\ Len(supplied) = 3
  /\ supplied[1].id = "home" /\ supplied[1].visible = "true"
  /\ supplied[1].isSpecial = Undefined
  /\ supplied[2].id = "search" /\ supplied[2].visible = "false"
  /\ supplied[3].id = "create" /\ supplied[3].visible = "true"
  /\ supplied[3].isSpecial = "true"
  /\ cfg.activeItemId = "home" /\ cfg.direction = "ltr"
  /\ cfg.showActiveIndicator

\* C8: the rendered sequence is the display-ordered items whose visible is
\* not false, in order, one element each; in the scenario it is home
\* (active, with its indicator, driven to full) then create (special, no
\* indicator), search absent.
C8_RenderedIsVisibleSubsequence ==
  /\ LET want == SelectSeq(DisplayOrder, LAMBDA it : it.visible # "false")
     IN RenderedKeys(tree) = [j \in 1..Len(want) |-> want[j].id]
  /\ IsScenario =>
       /\ RenderedKeys(tree) = <<"home", "create">>
       /\ Rendered(tree)[1].isActive
       /\ Rendered(tree)[1].indicators # <<>>
       /\ inst["home"].active = 100 \/ inst["home"].activeRun = Anim(100)
       /\ Rendered(tree)[2].tabSpecial
       /\ Rendered(tree)[2].indicators = <<>>
       /\ ~inst["search"].mounted

\* The scenario has been rendered.
C8_Witness == IsScenario /\ Len(Rendered(tree)) = 2

\* C9: renderIcon yields an element for each of the three icon kinds, of
\* the kind asked for; a vector icon of a recognised family is drawn with
\* that family and one of any other family with Ionicons.
C9_IconDispatchTotal ==
  /\ iconOut # Null
  /\ iconIn.icon.type = "svg" => iconOut.el = "SvgComponent"
  /\ iconIn.icon.type = "image" => iconOut.el = "Image"
  /\ iconIn.icon.type = "vector" =>
       /\ iconOut.el = "IconComponent"
       /\ iconOut.component =
            IF iconIn.icon.family \in RecognisedFamilies
            THEN iconIn.icon.family ELSE "Ionicons"

\* A vector icon of the unrecognised family AntDesign is drawn with Ionicons.
C9_Witness ==
  /\ iconIn.icon.type = "vector" /\ iconIn.icon.family = "AntDesign"
  /\ iconOut # Null /\ iconOut.component = "Ionicons"

\* The release handler has run its animations while a press animation was
\* still in flight, and no press has been handled since.
EarlyRelease(id) ==
  inst[id].mounted /\ inst[id].phase = "Released" /\ inst[id].early

\* Nothing is left to run on the item's press scalars.
PressSettled(id) ==
  /\ ~inst[id].scaleRun.on /\ ~inst[id].glowRun.on
  /\ inst[id].delays = 0

\* The item's press scalars are where they rest, with nothing left to run.
AtRest(id) ==
  PressSettled(id) /\ inst[id].scale = 100 /\ inst[id].glow = 0

\* C10: once the release handler has run before the press animation
\* completed, the press spring on scaleAnim is gone and is never attached
\* again, a press timing on glowAnim that the fade-out has replaced never
\* comes back, scaleAnim only moves towards 1 and glowAnim rises only while
\* the fade-out has not yet started; with no further press and the item
\* still mounted, the item comes to rest, and whenever nothing is left to
\* run it is at scale 1 and glow 0.
C10_ReleaseSupersedesPress ==
  /\ \A id \in Ids : EarlyRelease(id) ~> (~EarlyRelease(id) \/ AtRest(id))
  /\ [](\A id \in Ids :
          EarlyRelease(id) =>
            /\ inst[id].scaleRun # Anim(ScalePressed)
            /\ PressSettled(id) => AtRest(id))
  /\ [][\A id \in Ids :
          (EarlyRelease(id) /\ inst'[id].mounted
             /\ inst'[id].phase = "Released") =>
            /\ inst'[id].scale >= inst[id].scale
            /\ inst'[id].glow > inst[id].glow => inst[id].glowRun = Anim(100)
            /\ inst'[id].glowRun = Anim(100) => inst[id].glowRun = Anim(100)]_vars

\* An item released while its press animation was in flight has come to
\* rest at scale 1 and glow 0.
C10_Witness ==
  /\ EarlyRelease("home") /\ AtRest("home")
  /\ inst["home"].gesture \in {"tapped", "cancelled"}

\* The background elements rendered with the given style.
BackgroundWith(styles) ==
  SelectSeq(tree.background, LAMBDA e : e.el = "View" /\ e.style \in styles)

\* The blur elements of the background.
BlurElements == SelectSeq(tree.background, LAMBDA e : e.el = "BlurComponent")

\* The tint overlays of the simulated frost.
FrostStyles == {"glassFrostLayer1", "glassFrostLayer2", "glassFrostLayer3"}

\* C11: under theme glass with no BlurComponent the background is not
\* empty: it is the base overlay with a stack of 2 to 4 frost tint
\* overlays over it (at most 4 layers with the base counted in), and no
\* blur element.
C11_GlassWithoutBlurRendersFrost ==
  (cfg.theme = "glass" /\ cfg.BlurComponent = Undefined) =>
    /\ tree.background # <<>>
    /\ Len(BackgroundWith({"overlay"})) = 1
    /\ Len(BackgroundWith(FrostStyles)) \in 2..4
    /\ Len(BackgroundWith(FrostStyles \cup {"overlay"})) \in 2..4
    /\ BlurElements = <<>>

\* The glass theme has been rendered without a BlurComponent and the frost
\* layers are there.
C11_Witness ==
  /\ cfg.theme = "glass" /\ cfg.BlurComponent = Undefined
  /\ Len(BackgroundWith(FrostStyles)) = 3

\* C12: under theme glass with a BlurComponent the background is the blur
\* element, then exactly one darkening overlay, then the border line, with
\* no base overlay and no frost layer; in every render a blur element and
\* a frost layer never appear together.
C12_BlurReplacesFrost ==
  /\ (cfg.theme = "glass" /\ cfg.BlurComponent # Undefined) =>
       /\ Len(BlurElements) = 1
       /\ tree.background[1].el = "BlurComponent"
       /\ Len(BackgroundWith({"glassBlurOverlay"})) = 1
       /\ BackgroundWith(FrostStyles \cup {"overlay"}) = <<>>
       /\ Len(tree.background)
            = 2 + Len(BackgroundWith({"border"}))
  /\ BlurElements = <<>> \/ BackgroundWith(FrostStyles) = <<>>

\* The glass theme has been rendered with a BlurComponent.
C12_Witness ==
  /\ cfg.theme = "glass" /\ cfg.BlurComponent = "BlurView"
  /\ Len(BlurElements) = 1
  /\ BackgroundWith(FrostStyles) = <<>>

\* C13: the enableGlow every item is rendered with is the caller's
\* enableGlow when it is given, whatever the theme, and otherwise true
\* under glass and false under default.
C13_GlowEnableResolution ==
  \A j \in 1..Len(Rendered(tree)) :
    LET got == Rendered(tree)[j].enableGlow
    IN /\ cfg.enableGlow = "true" => got
       /\ cfg.enableGlow = "false" => ~got
       /\ cfg.enableGlow = Undefined => (got <=> cfg.theme = "glass")

\* An explicit false under glass has been resolved to false.
C13_Witness ==
  /\ cfg.enableGlow = "false" /\ cfg.theme = "glass"
  /\ Len(Rendered(tree)) = 1 /\ ~Rendered(tree)[1].enableGlow

\* The supplied items with no item disabled.
NoneDisabled == [k \in 1..Len(supplied) |-> [supplied[k] EXCEPT !.disabled = Undefined]]

\* C14: a rendered item carries the disabled style, opacity 0.4, exactly
\* when its disabled is true, and is at full opacity otherwise; disabling
\* items takes none of them out of the rendered sequence nor moves it.
C14_DisabledStyleIffDisabled ==
  /\ \A k \in 1..Len(supplied) :
       LET el == ElementOf(tree, supplied[k].id)
       IN el # Null =>
            /\ el.tabDisabled <=> supplied[k].disabled = "true"
            /\ el.opacity = IF supplied[k].disabled = "true" THEN 40 ELSE 100
  /\ RenderedKeys(tree) = RenderedKeys(DynamicNavbar(build, NoneDisabled, cfg))

\* A disabled item is rendered first of three, at opacity 0.4, beside an
\* item at full opacity.
C14_Witness ==
  /\ Len(Rendered(tree)) = 3
  /\ supplied[1].disabled = "true"
  /\ Rendered(tree)[1].key = supplied[1].id
  /\ Rendered(tree)[1].tabDisabled /\ Rendered(tree)[1].opacity = 40
  /\ Rendered(tree)[2].opacity = 100

\* renderIcon was applied to an svg icon that gives a colour.
SvgWithColour == iconIn.icon.type = "svg" /\ Truthy(iconIn.icon.color)

\* C15 as stated: an svg icon's supplied color is the rendered colour for
\* every combination of isActive and isSpecial.
C15_ColourAlwaysTakesPrecedence ==
  SvgWithColour => iconOut.color = iconIn.icon.color

\* C15, amended: an svg icon's supplied color is the rendered colour and
\* fill, active or not, when the item is not special; for a special item
\* the rendered colour and fill are the fixed special colour whatever color
\* the icon gives.
C15_ColourPrecedenceUnlessSpecial ==
  SvgWithColour =>
    /\ ~iconIn.isSpecial =>
         iconOut.color = iconIn.icon.color /\ iconOut.fill = iconIn.icon.color
    /\ iconIn.isSpecial =>
         /\ iconOut.color = DEFAULT_COLORS.midnightBlue
         /\ iconOut.fill = DEFAULT_COLORS.midnightBlue

\* An active, plain svg icon with a colour of its own is drawn in it.
C15_Witness ==
  /\ SvgWithColour /\ iconIn.isActive /\ ~iconIn.isSpecial
  /\ iconOut.color = "#00FF00"

\* C16: what renderIcon gives for an image icon is the same for all four
\* combinations of isActive and isSpecial; its width is the icon's width,
\* else its height, else 24, and its height likewise; it has a tint exactly
\* when the icon gives a tintColor, and then that one.
C16_ImageIgnoresActiveAndSpecial ==
  iconIn.icon.type = "image" =>
    /\ \A a \in BOOLEAN, sp \in BOOLEAN : renderIcon(iconIn.icon, a, sp) = iconOut
    /\ iconOut.width = IF iconIn.icon.width # 0 THEN iconIn.icon.width
                       ELSE IF iconIn.icon.height # 0 THEN iconIn.icon.height
                       ELSE 24
    /\ iconOut.height = IF iconIn.icon.height # 0 THEN iconIn.icon.height
                        ELSE IF iconIn.icon.width # 0 THEN iconIn.icon.width
                        ELSE 24
    /\ iconOut.tintColor =
         IF iconIn.icon.tintColor \in {Undefined, ""} THEN Undefined
         ELSE iconIn.icon.tintColor

\* An image icon without tintColor, on an active special item, is drawn
\* untinted at the inferred size.
C16_Witness ==
  /\ iconIn.icon.type = "image" /\ iconIn.isActive /\ iconIn.isSpecial
  /\ iconIn.icon.tintColor = Undefined /\ iconIn.icon.width = 0
  /\ iconIn.icon.height = 32
  /\ iconOut.tintColor = Undefined /\ iconOut.width = 32

\* The item is mounted and the spring on its activeAnim has ended.
ActiveSettled(id) == inst[id].mounted /\ ~inst[id].activeRun.on

\* The item's indicator is rendered and not fully transparent.
IndicatorShown(id) ==
  /\ ElementOf(tree, id) # Null
  /\ ElementOf(tree, id).indicators # <<>>
  /\ activeIndicatorOpacity(inst[id]) > 0

\* C17: in every settled state the item's indicator is shown exactly when
\* the item is active, not special and showActiveIndicator is on; the
\* indicator's opacity and scale are 0 for an inactive item and 1 for an
\* active plain one; a rendered indicator is the dot under theme default
\* and the pill under theme glass.
C17_IndicatorFollowsActive ==
  \A id \in Ids :
    ActiveSettled(id) =>
      LET el == ElementOf(tree, id)
      IN /\ IndicatorShown(id) <=>
              (el.isActive /\ ~el.tabSpecial /\ cfg.showActiveIndicator)
         /\ ~el.isActive =>
              /\ activeIndicatorOpacity(inst[id]) = 0
              /\ activeIndicatorScale(inst[id]) = 0
         /\ (el.isActive /\ ~el.tabSpecial /\ cfg.showActiveIndicator) =>
              /\ activeIndicatorOpacity(inst[id]) = 100
              /\ activeIndicatorScale(inst[id]) = 100
         /\ \A j \in 1..Len(el.indicators) :
              el.indicators[j].shape
                = IF cfg.theme = "glass" THEN "pill" ELSE "dot"

\* An item that is not the active one has settled with its indicator
\* rendered and invisible, under the glass theme.
C17_Witness ==
  /\ ActiveSettled("home") /\ cfg.activeItemId = "settings"
  /\ cfg.theme = "glass"
  /\ ElementOf(tree, "home").indicators # <<>>
  /\ ElementOf(tree, "home").indicators[1].shape = "pill"
  /\ activeIndicatorOpacity(inst["home"]) = 0

\* An accepted press-start of this mount has been followed by a press-end,
\* and no press is under way.
PressEnded(id) ==
  /\ inst[id].mounted
  /\ inst[id].phase \in {"Pressed", "Released"}
  /\ inst[id].gesture \in {"tapped", "cancelled"}

\* C18: once an accepted press-start has been followed by its press-end,
\* whatever was re-rendered in between, the item returns to rest: when
\* nothing is left to run, press-scale is 1 and glow is 0.
C18_ReleaseReturnsToRest ==
  \A id \in Ids : (PressEnded(id) /\ PressSettled(id)) => AtRest(id)

\* A press-start is delivered to the item in this step.
PressStartDelivered(id) ==
  inst[id].mounted /\ inst[id].gesture # "down" /\ inst'[id].gesture = "down"

\* The press animations are attached to the item's scalars.
PressTargets(r) ==
  r.scaleRun = Anim(ScalePressed) /\ r.glowRun = Anim(100)

\* What a press handler can touch is as it was.
PressUntouched(id) ==
  /\ inst'[id].scale = inst[id].scale /\ inst'[id].glow = inst[id].glow
  /\ inst'[id].scaleRun = inst[id].scaleRun
  /\ inst'[id].glowRun = inst[id].glowRun
  /\ inst'[id].delays = inst[id].delays
  /\ inst'[id].phase = inst[id].phase

\* C19 as stated: a press-start on an item that is not disabled sets the
\* press-scale target to 0.92 and the glow target to 1 in every
\* configuration, and a press-start on a disabled item is ignored.
C19_PressStartIgnoredOnlyIfDisabled ==
  [][\A id \in Ids :
       PressStartDelivered(id) =>
         IF ElementOf(tree, id).itemDisabled
         THEN PressUntouched(id)
         ELSE PressTargets(inst'[id])]_vars

\* C19, amended: a press-start on an item that is not disabled, rendered
\* with the resolved glow-enable flag true, sets the press-scale target to
\* 0.92 and the glow target to 1 and makes the item Pressed; a press-start
\* on a disabled item or with the flag false is ignored.
C19_PressStartIgnoredIfDisabledOrGlowOff ==
  [][\A id \in Ids :
       PressStartDelivered(id) =>
         IF ElementOf(tree, id).itemDisabled \/ ~ElementOf(tree, id).enableGlow
         THEN PressUntouched(id)
         ELSE PressTargets(inst'[id]) /\ inst'[id].phase = "Pressed"]_vars

\* An accepted press-start has just set both targets on an enabled item
\* rendered with the glow on.
C19_Witness ==
  /\ inst["home"].gesture = "down" /\ inst["home"].phase = "Pressed"
  /\ PressTargets(inst["home"])
  /\ inst["home"].scale = 100 /\ inst["home"].glow = 0
  /\ ElementOf(tree, "home").enableGlow
  /\ ~ElementOf(tree, "home").itemDisabled

\* The item is held after a press-start that was accepted while a release
\* was still in flight.
Repressed(id) ==
  /\ inst[id].mounted /\ inst[id].gesture = "down"
  /\ inst[id].phase = "Pressed" /\ inst[id].early

\* C20: while an item re-pressed before its release had completed stays
\* held, the release's fade-out is never attached to glowAnim, and when
\* nothing is left to run press-scale is 0.92 and glow is 1.
C20_RepressSupersedesRelease ==
  \A id \in Ids :
    Repressed(id) =>
      /\ inst[id].glowRun # Anim(0)
      /\ PressSettled(id) => inst[id].scale = ScalePressed /\ inst[id].glow = 100

\* The value the item's activeAnim is to have: 1 if active, 0 otherwise.
ActiveTarget(id) == IF ElementOf(tree, id).isActive THEN 100 ELSE 0

\* The item's activeAnim is at v with nothing left to run.
ActiveRestsAt(id, v) ==
  inst[id].mounted /\ ~inst[id].activeRun.on /\ inst[id].active = v

\* C21: after every render each mounted item's activeAnim either runs
\* towards 1 if the item is now active and 0 otherwise, or rests there: it
\* never runs towards, or rests at, the value of an earlier activeItemId;
\* and while the item stays mounted with the same active flag, activeAnim
\* eventually rests at that target.
C21_ActiveRetargeted ==
  /\ [](\A id \in Ids :
          inst[id].mounted =>
            \/ inst[id].activeRun = Anim(ActiveTarget(id))
            \/ ActiveRestsAt(id, ActiveTarget(id)))
  /\ \A id \in Ids : \A v \in {0, 100} :
       (inst[id].mounted /\ ActiveTarget(id) = v)
         ~> (ActiveRestsAt(id, v)
               \/ ~(inst[id].mounted /\ ActiveTarget(id) = v))

\* Both items are half-way and heading to 0 with no item active: only one
\* of them can have been on its way down from 1, the other was overtaken
\* by a change of activeItemId on its way up.
C21_Witness ==
  /\ cfg.activeItemId = Undefined
  /\ \A id \in {"home", "create"} :
       /\ inst[id].mounted /\ inst[id].active = ActiveStep
       /\ inst[id].activeRun = Anim(0)

\* The instance is as useRef left it at mount: press-scale 1, glow 0,
\* activeAnim at v, no press animation or delay, no gesture seen.
FreshAt(r, v) ==
  /\ r.mounted /\ r.phase = "Idle" /\ r.gesture = "none"
  /\ r.scale = 100 /\ r.glow = 0 /\ r.active = v
  /\ r.scaleRun = NoAnim /\ r.glowRun = NoAnim /\ r.delays = 0

\* The item is mounted in this step.
Mounts(id) == ~inst[id].mounted /\ inst'[id].mounted

\* C22: an item instance is Idle when it is mounted, at the first render
\* and at every later one: press-scale 1, glow 0, and activeAnim at 1 if
\* the item is active at mount and at 0 otherwise.
C22_MountsIdle ==
  /\ \A id \in Ids :
       inst[id].mounted => FreshAt(inst[id], ActiveTarget(id))
  /\ [][\A id \in Ids :
          Mounts(id) =>
            FreshAt(inst'[id],
                    IF ElementOf(tree', id).isActive THEN 100 ELSE 0)]_vars

\* The item is as it is when mounted as the active one with the glow on:
\* its activeAnim is at 1 with the effect's spring towards 1 attached.
C22_Witness ==
  /\ FreshAt(inst["home"], 100)
  /\ inst["home"].activeRun = Anim(100)
  /\ ElementOf(tree, "home").isActive
  /\ ElementOf(tree, "home").enableGlow

\* A press-end is delivered to the item in this step.
PressEndDelivered(id) ==
  inst[id].gesture = "down" /\ inst'[id].gesture \in {"tapped", "cancelled"}

\* C23: a press-start or press-end on one item leaves every other item's
\* instance as it was (press-scale, glow and activeAnim, the animations
\* attached to them and the delays waiting) and leaves the item's own
\* activeAnim and its animation alone.
C23_PressTouchesOwnItemOnly ==
  [][\A id \in Ids :
       (PressStartDelivered(id) \/ PressEndDelivered(id)) =>
         /\ \A o \in Ids \ {id} : inst'[o] = inst[o]
         /\ inst'[id].active = inst[id].active
         /\ inst'[id].activeRun = inst[id].activeRun]_vars

\* "home" is held, fully pressed and half-way through its active
\* transition, and a press-start has just been accepted on "create".
C23_Witness ==
  /\ inst["home"].gesture = "down"
  /\ inst["home"].scale = ScalePressed /\ inst["home"].glow = 100
  /\ inst["home"].active = ActiveStep /\ inst["home"].activeRun = Anim(100)
  /\ inst["create"].gesture = "down" /\ PressTargets(inst["create"])
  /\ inst["create"].scale = 100 /\ inst["create"].glow = 0

\* C24: a press-start or press-end delivered to an item rendered with
\* item.disabled set returns at once: the item's press-scale and glow,
\* the animations attached to them, the delays waiting and its press
\* state are as before.
C24_DisabledPressSuppressed ==
  [][\A id \in Ids :
       /\ PressStartDelivered(id) \/ PressEndDelivered(id)
       /\ ElementOf(tree, id).itemDisabled
       => PressUntouched(id)]_vars

\* The item was disabled while held, with the glow on: the press-end has
\* been delivered and the press animation it did not replace still runs.
C24_Witness ==
  /\ ElementOf(tree, "home") # Null
  /\ ElementOf(tree, "home").itemDisabled /\ ElementOf(tree, "home").enableGlow
  /\ inst["home"].gesture = "cancelled" /\ inst["home"].phase = "Pressed"
  /\ inst["home"].scaleRun = Anim(ScalePressed)

\* C25: a render that leaves an item out of the view destroys its
\* instance, whatever it was doing (held, animating, a delay waiting), and
\* a render that brings it back mounts a new one in Idle: press-scale 1,
\* glow 0, activeAnim at the value of its active flag at that render with
\* the effect's first animation towards that value, nothing else running.
C25_HiddenThenShownRestartsIdle ==
  [][\A id \in Ids :
       /\ ElementOf(tree', id) = Null => inst'[id] = NoInst
       /\ (ElementOf(tree, id) = Null /\ ElementOf(tree', id) # Null) =>
            LET v == IF ElementOf(tree', id).isActive THEN 100 ELSE 0
            IN /\ FreshAt(inst'[id], v)
               /\ inst'[id].activeRun = Anim(v)
               /\ inst'[id].joined = "none" /\ ~inst'[id].early]_vars

\* The item's onPress has run, so a gesture was completed on it, and the
\* instance now mounted has seen no gesture: the item was hidden and
\* shown after that tap, and it is as new.
C25_Witness ==
  /\ calls["home"] > 0
  /\ FreshAt(inst["home"], 0) /\ inst["home"].activeRun = Anim(0)

\* What the instance holds apart from the animation the effect attaches
\* to activeAnim.
Held(r) ==
  <<r.scale, r.glow, r.active, r.scaleRun, r.glowRun, r.delays, r.joined,
    r.gesture, r.phase>>

\* C26: a re-render (the direction switched, another item hidden or
\* shown, activeItemId moved) leaves every item that stays in the view
\* with its own press-scale, glow and activeAnim values, press animations
\* and gesture, wherever it is now displayed, and an item it brings into
\* the view starts from the mount values, not from another item's.
C26_StateFollowsId ==
  [][(cfg' # cfg \/ supplied' # supplied) =>
       \A id \in Ids :
         /\ (inst[id].mounted /\ ElementOf(tree', id) # Null) =>
              /\ inst'[id].mounted
              /\ Held(inst'[id]) = Held(inst[id])
         /\ Mounts(id) =>
              /\ inst'[id].scale = 100 /\ inst'[id].glow = 0
              /\ inst'[id].scaleRun = NoAnim /\ inst'[id].glowRun = NoAnim]_vars

\* The bar is displayed right to left, "create" first; "home" is held,
\* half-way into its press and half-way through its active transition,
\* and "create" is at rest.
C26_Witness ==
  /\ cfg.direction = "rtl"
  /\ tree.children[1] # Null /\ tree.children[1].key = "create"
  /\ inst["home"].gesture = "down"
  /\ inst["home"].scale = 100 - ScaleStep /\ inst["home"].glow = GlowStep
  /\ inst["home"].active = ActiveStep
  /\ inst["create"].mounted
  /\ inst["create"].scale = 100 /\ inst["create"].glow = 0

\* C27: every rendered item that is not special contains at most one
\* active-indicator element, under either theme, with or without a label.
C27_AtMostOneIndicator ==
  \A k \in 1..Len(tree.children) :
    (tree.children[k] # Null /\ ~tree.children[k].tabSpecial) =>
      Len(tree.children[k].indicators) <= 1

\* C28: a rendered item that is both active and special is styled as
\* special: its label, if it has one, has the special colour and not the
\* active accent, and so has its vector or svg icon, under either theme.
C28_SpecialOverActive ==
  \A k \in 1..Len(tree.children) :
    LET el == tree.children[k]
    IN (el # Null /\ el.isActive /\ el.tabSpecial) =>
         /\ el.label # Null =>
              /\ el.label.color = DEFAULT_COLORS.midnightBlue
              /\ el.label.color # DEFAULT_COLORS.goldText
         /\ (el.icon # Null /\ el.icon.el \in {"IconComponent", "SvgComponent"}) =>
              /\ el.icon.color = DEFAULT_COLORS.midnightBlue
              /\ el.icon.color # DEFAULT_COLORS.goldText

\* "create", with its svg icon, is the active item and special, labelled,
\* under the glass theme.
C28_Witness ==
  /\ cfg.theme = "glass" /\ cfg.activeItemId = "create"
  /\ ElementOf(tree, "create") # Null
  /\ ElementOf(tree, "create").tabSpecial /\ ElementOf(tree, "create").isActive
  /\ ElementOf(tree, "create").label # Null
  /\ ElementOf(tree, "create").label.color = DEFAULT_COLORS.midnightBlue
  /\ ElementOf(tree, "create").icon.el = "SvgComponent"
  /\ ElementOf(tree, "create").icon.color = DEFAULT_COLORS.midnightBlue

\* The item is rendered special, enabled and with the glow on.
SpecialWithGlow(id) ==
  /\ ElementOf(tree, id) # Null
  /\ ElementOf(tree, id).tabSpecial /\ ElementOf(tree, id).enableGlow
  /\ ~ElementOf(tree, id).itemDisabled

\* C29: a special item is never rendered with a glow layer, and with the
\* glow on its press handlers act as on any item: a press-start attaches
\* the press animations (press-scale to 0.92, glow to 1), a press-end
\* attaches the release (press-scale to 1, and the delay before the glow
\* fades).
C29_SpecialGlowsUnseen ==
  /\ [](\A k \in 1..Len(tree.children) :
          (tree.children[k] # Null /\ tree.children[k].tabSpecial) =>
            tree.children[k].glowLayer = Null)
  /\ [][\A id \in Ids :
          /\ (SpecialWithGlow(id) /\ PressStartDelivered(id)) =>
               /\ PressTargets(inst'[id]) /\ inst'[id].phase = "Pressed"
          /\ (SpecialWithGlow(id) /\ PressEndDelivered(id)) =>
               /\ inst'[id].scaleRun = Anim(100)
               /\ inst'[id].delays = inst[id].delays + 1
               /\ inst'[id].phase = "Released"]_vars

\* The special item "create" is held and fully pressed, its glow scalar
\* at 1, with the glow on and no glow layer rendered.
C29_Witness ==
  /\ SpecialWithGlow("create")
  /\ ElementOf(tree, "create").glowLayer = Null
  /\ inst["create"].gesture = "down" /\ inst["create"].phase = "Pressed"
  /\ inst["create"].scale = ScalePressed /\ inst["create"].glow = 100

\* C30: a blur element is rendered only under theme glass with a
\* BlurComponent supplied; under theme default the background is the one
\* theme overlay and nothing else, with a BlurComponent or without.
C30_BlurOnlyUnderGlass ==
  /\ BlurElements # <<>> =>
       cfg.theme = "glass" /\ cfg.BlurComponent # Undefined
  /\ cfg.theme = "default" =>
       tree.background = <<[el |-> "View", style |-> "overlay"]>>

\* Theme default has been rendered with a BlurComponent supplied, and the
\* background is the overlay alone.
C30_Witness ==
  /\ cfg.theme = "default" /\ cfg.BlurComponent = "BlurView"
  /\ Len(tree.background) = 1
  /\ tree.background[1].style = "overlay"
====
